---- MODULE Spec2Model ----
(* A model of streamlit_app.py: the S3 PDF extractor.                      *)
(* Strings are sequences of one-character strings, so that lower(),        *)
(* strip(), split('/'), endswith() and the substring test are computed.    *)
EXTENDS Integers, Sequences, FiniteSets, TLC

VARIABLES
    op,            \* which function the last call applied ("idle" before any)
    call,          \* the arguments of the last call
    ret,           \* what the last call returned / reported
    found_files,   \* st.session_state.found_files (<<>>: absent or empty)
    s3_client,     \* st.session_state.s3_client ("none": absent)
    bucket_name,   \* st.session_state.bucket_name ("none": absent)
    found_src,     \* history: bucket and client of the search that stored found_files
    run,           \* what the last script run did and displayed
    pc,            \* position of the bulk-archive handler
    selected,      \* selected_files of the bulk-archive handler
    idx,           \* loop index i of the bulk-archive handler
    files_data,    \* files_data dict of the handler, in insertion order
    inflight,      \* get_object requests issued and not yet returned
    requests,      \* every get_object request issued, in order
    outcomes,      \* what each request returned (a raise, or the bytes)
    zip_out        \* the archive handed to st.download_button, when one was made

vars == <<op, call, ret, found_files, s3_client, bucket_name, found_src, run,
          pc, selected, idx, files_data, inflight, requests, outcomes, zip_out>>

searchVars == <<op, call, ret>>
sessionVars == <<found_files, s3_client, bucket_name, found_src, run>>
bulkVars == <<pc, selected, idx, files_data, inflight, requests, outcomes, zip_out>>

----------------------------------------------------------------------------
(* Bounds of the model                                                      *)

MaxObjs == 2        \* objects in a listing
MaxTargets == 2     \* requested names in a name list
MaxPageSize == 2    \* objects per listing page
MaxFailPage == 2    \* the page request that may raise
MaxSel == 2         \* files selected for a bulk archive
MaxFiles == 2       \* entries of a mapping given to create_zip_file

----------------------------------------------------------------------------
(* Strings                                                                  *)

\* str.lower() on one character
LowerChar(c) ==
    CASE c = "R" -> "r"
      [] c = "P" -> "p"
      [] c = "D" -> "d"
      [] c = "F" -> "f"
      [] c = "A" -> "a"
      [] OTHER -> c

\* str.lower()
Lower(s) == [i \in 1..Len(s) |-> LowerChar(s[i])]

IsSpace(c) == c = " "

\* str.strip(): drop leading and trailing whitespace
RECURSIVE LStrip(_)
LStrip(s) == IF s # <<>> /\ IsSpace(Head(s)) THEN LStrip(Tail(s)) ELSE s

RECURSIVE RStrip(_)
RStrip(s) ==
    IF s # <<>> /\ IsSpace(s[Len(s)]) THEN RStrip(SubSeq(s, 1, Len(s) - 1)) ELSE s

Strip(s) == RStrip(LStrip(s))

\* str.endswith(suffix)
EndsWith(s, suffix) ==
    /\ Len(suffix) <= Len(s)
    /\ SubSeq(s, Len(s) - Len(suffix) + 1, Len(s)) = suffix

\* str.startswith(prefix)
StartsWith(s, prefix) ==
    /\ Len(prefix) <= Len(s)
    /\ SubSeq(s, 1, Len(prefix)) = prefix

\* sub in s
Contains(s, sub) ==
    \E i \in 1..(Len(s) - Len(sub) + 1) : SubSeq(s, i, i + Len(sub) - 1) = sub

\* s.split('/')[-1]: what follows the last '/', the whole string without one
LastSegment(s) ==
    LET slashes == {i \in 1..Len(s) : s[i] = "/"}
    IN  IF slashes = {} THEN s
        ELSE LET last == CHOOSE i \in slashes : \A j \in slashes : j <= i
             IN  SubSeq(s, last + 1, Len(s))

DotPdf == <<".", "p", "d", "f">>

\* a slip for IsPdfKey: '.pdf' in key.lower() instead of endswith
IsPdfKeyContains(key) == Contains(Lower(key), DotPdf)

\* obj['Key'].lower().endswith('.pdf')
IsPdfKey(key) == EndsWith(Lower(key), DotPdf)

----------------------------------------------------------------------------
(* Sequences                                                                *)

RECURSIVE SelectSeqBy(_, _)
\* [f for f in s if Test(f)] with Test given as the set of elements passing
SelectSeqBy(s, pass) ==
    IF s = <<>> THEN <<>>
    ELSE (IF Head(s) \in pass THEN <<Head(s)>> ELSE <<>>) \o SelectSeqBy(Tail(s), pass)

Range(s) == {s[i] : i \in 1..Len(s)}

\* sequences over S of length at most n
SeqsUpTo(S, n) == UNION {[1..k -> S] : k \in 0..n}

\* sequences over S of length at most n without repetition
DistinctSeqsUpTo(S, n) ==
    {s \in SeqsUpTo(S, n) : \A i, j \in 1..Len(s) : i # j => s[i] # s[j]}

----------------------------------------------------------------------------
(* The bucket: object keys, listings, pages, faults                         *)

Kdr  == <<"d", "/", "r", ".", "p", "d", "f">>        \* d/r.pdf
KxR  == <<"x", "/", "R", ".", "P", "D", "F">>        \* x/R.PDF
Kxr  == <<"x", "/", "r", ".", "p", "d", "f">>        \* x/r.pdf
Kar  == <<"a", "r", ".", "p", "d", "f">>             \* ar.pdf
Ktxt == <<"r", ".", "t", "x", "t">>                  \* r.txt
Kdir == <<"r", ".", "p", "d", "f", "/", "n">>        \* r.pdf/n

\* the objects a listing page may hold: obj['Key'], obj['Size']
Objects ==
    { [Key |-> Kdr, Size |-> 1], [Key |-> KxR, Size |-> 2], [Key |-> Kar, Size |-> 0],
      [Key |-> Ktxt, Size |-> 1], [Key |-> Kdir, Size |-> 1] }

\* what list_objects_v2 enumerates: distinct keys
Listings == DistinctSeqsUpTo(Objects, MaxObjs)

\* paginator.paginate(): pages of at most ps objects; an empty listing is one
\* page without 'Contents'
RECURSIVE Paginate(_, _)
Paginate(listing, ps) ==
    IF Len(listing) <= ps THEN <<listing>>
    ELSE <<SubSeq(listing, 1, ps)>> \o Paginate(SubSeq(listing, ps + 1, Len(listing)), ps)

NoFault == [at |-> 0, exc |-> "none"]

\* the at-th page request raises exc
Faults ==
    {NoFault} \cup
    {[at |-> k, exc |-> e] : k \in 1..MaxFailPage, e \in {"ClientError", "Exception"}}

\* whether iterating the pages raises
Raises(pages, fault) == fault.at >= 1 /\ fault.at <= Len(pages)

\* the pages the for loop went through: all of them, or those before the fault
PagesConsumed(pages, fault) ==
    IF Raises(pages, fault) THEN SubSeq(pages, 1, fault.at - 1) ELSE pages

----------------------------------------------------------------------------
(* find_specific_pdfs                                                       *)

\* the dict appended for one object
Entry(obj) == [Key |-> obj.Key, FileName |-> LastSegment(obj.Key), Size |-> obj.Size]

\* for obj in page['Contents']: if obj['Key'].lower().endswith('.pdf'): append
RECURSIVE CatalogPage(_)
CatalogPage(page) ==
    IF page = <<>> THEN <<>>
    ELSE (IF IsPdfKey(Head(page).Key) THEN <<Entry(Head(page))>> ELSE <<>>)
         \o CatalogPage(Tail(page))

\* for page in pages: if 'Contents' in page: ...
RECURSIVE CatalogPages(_)
CatalogPages(pages) ==
    IF pages = <<>> THEN <<>>
    ELSE CatalogPage(Head(pages)) \o CatalogPages(Tail(pages))

\* exact_matches
ExactMatches(all_s3_files, target_file) ==
    SelectSeqBy(all_s3_files,
        {f \in Range(all_s3_files) : Lower(f.FileName) = Lower(target_file)})

\* partial_matches
PartialMatches(all_s3_files, target_file) ==
    SelectSeqBy(all_s3_files,
        {f \in Range(all_s3_files) : Contains(Lower(f.FileName), Lower(target_file))})

\* a slip for MatchTarget: the substring match without the exact match first
MatchTargetPartial(all_s3_files, raw_target) ==
    LET target_file == Strip(raw_target)
    IN  IF target_file = <<>> THEN <<>>
        ELSE PartialMatches(all_s3_files, target_file)

\* what one pass of the target loop extends found_files with
MatchTarget(all_s3_files, raw_target) ==
    LET target_file == Strip(raw_target)
    IN  IF target_file = <<>> THEN <<>>
        ELSE IF ExactMatches(all_s3_files, target_file) # <<>>
             THEN ExactMatches(all_s3_files, target_file)
             ELSE PartialMatches(all_s3_files, target_file)

\* for target_file in target_files: ...
RECURSIVE MatchTargets(_, _)
MatchTargets(all_s3_files, target_files) ==
    IF target_files = <<>> THEN <<>>
    ELSE MatchTarget(all_s3_files, Head(target_files))
         \o MatchTargets(all_s3_files, Tail(target_files))

\* a slip for FindFailed: the catalog of the pages read so far is returned
FindFailedPartial(pages, fault) ==
    [found |-> <<>>, all |-> CatalogPages(PagesConsumed(pages, fault)),
     errors |-> <<"Error accessing S3 bucket">>,
     consumed |-> Len(PagesConsumed(pages, fault))]

\* the except branches: one st.error, return [], []
FindFailed(pages, fault) ==
    [found |-> <<>>, all |-> <<>>,
     errors |-> <<IF fault.exc = "ClientError" THEN "Error accessing S3 bucket"
                  ELSE "Unexpected error">>,
     consumed |-> Len(PagesConsumed(pages, fault))]

find_specific_pdfs(listing, ps, fault, target_files) ==
    LET pages == Paginate(listing, ps)
        all_s3_files == CatalogPages(pages)
    IN  IF Raises(pages, fault) THEN FindFailed(pages, fault)
        ELSE [found |-> MatchTargets(all_s3_files, target_files),
              all |-> all_s3_files,
              errors |-> <<>>,
              consumed |-> Len(pages)]

----------------------------------------------------------------------------
(* search_by_pattern                                                        *)

\* The pattern strings the page builds (contains / starts with / ends with,
\* the text escaped), the match-all pattern of Browse All, and a regex that
\* does not compile.
AnyPattern == [form |-> "any", text |-> <<>>]          \* ".*"
BadPattern == [form |-> "bad", text |-> <<"(">>]       \* "("

Patterns ==
    { AnyPattern, BadPattern,
      [form |-> "contains", text |-> <<"A", "r">>],    \* ".*Ar.*"
      [form |-> "starts", text |-> <<"x">>],           \* "^x.*"
      [form |-> "starts", text |-> <<"r">>],           \* "^r.*"
      [form |-> "ends", text |-> <<"r">>] }            \* ".*r\.pdf$"

\* re.compile(pattern, re.IGNORECASE) does not raise re.error
Compiles(pattern) == pattern.form # "bad"

\* pattern_regex.search(s)
RegexSearch(pattern, s) ==
    CASE pattern.form = "any" -> TRUE
      [] pattern.form = "contains" -> Contains(Lower(s), Lower(pattern.text))
      [] pattern.form = "starts" -> StartsWith(Lower(s), Lower(pattern.text))
      [] pattern.form = "ends" -> EndsWith(Lower(s), Lower(pattern.text) \o DotPdf)
      [] OTHER -> FALSE

\* a slip for PatternHit: the '.pdf' test left out
PatternHitAnyKey(pattern, obj) ==
    \/ RegexSearch(pattern, obj.Key)
    \/ RegexSearch(pattern, LastSegment(obj.Key))

\* the test of one object: a PDF key, and the pattern found in the key or in
\* the file name
PatternHit(pattern, obj) ==
    /\ IsPdfKey(obj.Key)
    /\ \/ RegexSearch(pattern, obj.Key)
       \/ RegexSearch(pattern, LastSegment(obj.Key))

RECURSIVE PatternPage(_, _)
PatternPage(pattern, page) ==
    IF page = <<>> THEN <<>>
    ELSE (IF PatternHit(pattern, Head(page))
          THEN <<[Key |-> Head(page).Key,
                  FileName |-> LastSegment(Head(page).Key),
                  Size |-> Head(page).Size]>>
          ELSE <<>>)
         \o PatternPage(pattern, Tail(page))

RECURSIVE PatternPages(_, _)
PatternPages(pattern, pages) ==
    IF pages = <<>> THEN <<>>
    ELSE PatternPage(pattern, Head(pages)) \o PatternPages(pattern, Tail(pages))

\* except re.error: one st.error, return []; no page was requested yet
PatternInvalid ==
    [found |-> <<>>, errors |-> <<"Invalid regex pattern">>, consumed |-> 0]

\* except Exception: one st.error, return []
PatternFailed(pages, fault) ==
    [found |-> <<>>, errors |-> <<"Error searching files">>,
     consumed |-> Len(PagesConsumed(pages, fault))]

\* a slip for search_by_pattern: the pattern compiled only once the pages
\* were read
search_by_pattern_late(listing, ps, fault, pattern) ==
    LET pages == Paginate(listing, ps)
    IN  IF Raises(pages, fault) THEN PatternFailed(pages, fault)
        ELSE IF ~Compiles(pattern)
        THEN [found |-> <<>>, errors |-> <<"Invalid regex pattern">>,
              consumed |-> Len(pages)]
        ELSE [found |-> PatternPages(pattern, pages),
              errors |-> <<>>,
              consumed |-> Len(pages)]

search_by_pattern(listing, ps, fault, pattern) ==
    LET pages == Paginate(listing, ps)
    IN  IF ~Compiles(pattern) THEN PatternInvalid
        ELSE IF Raises(pages, fault) THEN PatternFailed(pages, fault)
        ELSE [found |-> PatternPages(pattern, pages),
              errors |-> <<>>,
              consumed |-> Len(pages)]

----------------------------------------------------------------------------
(* create_zip_file                                                          *)

\* How ZipFile.writestr tests its name for a directory: filename[-1] == '/'
\* (IndexError on an empty name) or filename.endswith('/'), by the Python
\* version.
Builds == {"index", "endswith"}

\* zip_file.writestr(clean_name, file_data) raises
WriteStrRaises(build, clean_name) == build = "index" /\ clean_name = <<>>

\* the loop body: one archive entry under the last segment of the name
ZipEntry(item) == [name |-> LastSegment(item.name), data |-> item.data]

\* for file_name, file_data in files_data.items(): ... (the dict in insertion
\* order); a raise of writestr leaves the function
RECURSIVE ZipLoop(_, _, _)
ZipLoop(build, items, written) ==
    IF items = <<>> THEN [raised |-> FALSE, entries |-> written]
    ELSE IF WriteStrRaises(build, ZipEntry(Head(items)).name)
         THEN [raised |-> TRUE, entries |-> <<>>]
         ELSE ZipLoop(build, Tail(items), Append(written, ZipEntry(Head(items))))

\* a slip for create_zip_file: entries keyed by their clean name, the last
\* write of a name replacing the earlier one
create_zip_file_by_name(build, items) ==
    LET r == ZipLoop(build, items, <<>>)
        keep == {i \in 1..Len(r.entries) :
                    \A j \in (i + 1)..Len(r.entries) : r.entries[j].name # r.entries[i].name}
    IN  [raised |-> r.raised,
         entries |-> SelectSeqBy(r.entries, {r.entries[i] : i \in keep})]


create_zip_file(build, items) == ZipLoop(build, items, <<>>)

----------------------------------------------------------------------------
(* The functions called on their own                                        *)

NRp == <<" ", "R", ".", "p", "d", "f", " ">>     \* " R.pdf "
Nar == <<"a", "r">>                              \* "ar"
Nzz == <<"z", "z">>                              \* "zz"
Nsp == <<" ">>                                   \* " "

\* requested names as a caller may pass them
Names == {NRp, Nar, Nzz, Nsp}

TargetLists == SeqsUpTo(Names, MaxTargets)

PageSizes == 1..MaxPageSize

Bytes == {<<>>, <<1>>, <<2>>}

Kd  == <<"d", "/">>                              \* d/
Kr  == <<"r", ".", "p", "d", "f">>               \* r.pdf

\* logical names of a mapping given to create_zip_file
LogicalNames == {Kdr, Kxr, Kr, Kd}

\* a dict: items in insertion order, no key twice
Mappings ==
    {m \in SeqsUpTo([name : LogicalNames, data : Bytes], MaxFiles) :
        \A i, j \in 1..Len(m) : i # j => m[i].name # m[j].name}

NoCall == [listing |-> <<>>, ps |-> 1, fault |-> NoFault]
NoRet == [found |-> <<>>, errors |-> <<>>, consumed |-> 0]

CallFind ==
    /\ op = "idle"
    /\ \E listing \in Listings, ps \in PageSizes, fault \in Faults,
          target_files \in TargetLists :
        /\ op' = "find"
        /\ call' = [listing |-> listing, ps |-> ps, fault |-> fault,
                    target_files |-> target_files]
        /\ ret' = find_specific_pdfs(listing, ps, fault, target_files)
    /\ UNCHANGED <<sessionVars, bulkVars>>

CallPattern ==
    /\ op = "idle"
    /\ \E listing \in Listings, ps \in PageSizes, fault \in Faults,
          pattern \in Patterns :
        /\ op' = "pattern"
        /\ call' = [listing |-> listing, ps |-> ps, fault |-> fault,
                    pattern |-> pattern]
        /\ ret' = search_by_pattern(listing, ps, fault, pattern)
    /\ UNCHANGED <<sessionVars, bulkVars>>

CallZip ==
    /\ op = "idle"
    /\ \E build \in Builds, m \in Mappings :
        /\ op' = "zip"
        /\ call' = [build |-> build, files_data |-> m]
        /\ ret' = create_zip_file(build, m)
    /\ UNCHANGED <<sessionVars, bulkVars>>

Return ==
    /\ op # "idle"
    /\ op' = "idle"
    /\ call' = NoCall
    /\ ret' = NoRet
    /\ UNCHANGED <<sessionVars, bulkVars>>

NoRun == [kind |-> "none"]

Init ==
    /\ op = "idle"
    /\ call = NoCall
    /\ ret = NoRet
    /\ found_files = <<>>
    /\ s3_client = "none"
    /\ bucket_name = "none"
    /\ found_src = [bucket |-> "none", client |-> "none"]
    /\ run = NoRun
    /\ pc = "idle"
    /\ selected = <<>>
    /\ idx = 0
    /\ files_data = <<>>
    /\ inflight = {}
    /\ requests = <<>>
    /\ outcomes = <<>>
    /\ zip_out = [made |-> FALSE, entries |-> <<>>]

NextCalls == CallFind \/ CallPattern \/ CallZip \/ Return

SpecCalls == Init /\ [][NextCalls]_vars

----------------------------------------------------------------------------
(* The page: the "Search for PDFs" button and the single download button     *)

Buckets == {"A", "B"}

\* what get_s3_client() returns: a client, or None ("none") when boto3 raises
Clients == {"c1"}

\* the objects list_objects_v2 enumerates in each bucket
Stored(bucket) ==
    IF bucket = "A"
    THEN <<[Key |-> Kdr, Size |-> 1], [Key |-> Kar, Size |-> 0], [Key |-> Ktxt, Size |-> 1]>>
    ELSE <<[Key |-> KxR, Size |-> 2]>>

\* the listing is read whole, or its first page request raises
PageFaults == {NoFault, [at |-> 1, exc |-> "ClientError"]}

\* filenames_input.split('\n'): the lines typed into the text area
TextAreas ==
    { <<NRp>>, <<Nar>>, <<Nzz>>, <<Nsp>>, <<NRp, Nzz>>, <<Nar, Nsp, NRp>>, <<Nzz, Nar>> }

\* [name.strip() for name in filenames_input.split('\n') if name.strip()]
RECURSIVE ParseNames(_)
ParseNames(lines) ==
    IF lines = <<>> THEN <<>>
    ELSE (IF Strip(Head(lines)) # <<>> THEN <<Strip(Head(lines))>> ELSE <<>>)
         \o ParseNames(Tail(lines))

\* missing_files = target_names_lower - found_names
MissingFiles(found, target_files) ==
    {Lower(name) : name \in Range(target_files)}
        \ {Lower(f.FileName) : f \in Range(found)}

\* st.session_state.s3_client = s3_client; st.session_state.bucket_name = bucket_name
StoreClient(client, bucket) ==
    /\ s3_client' = client
    /\ bucket_name' = bucket

\* st.session_state.found_files = found_files
StoreFound(found, client, bucket) ==
    /\ found_files' = found
    /\ found_src' = [bucket |-> bucket, client |-> client]

\* extraction_method == "Specific Filenames"
SearchNames ==
    /\ op = "idle" /\ pc = "idle"
    /\ \E bucket \in Buckets, client \in Clients, fault \in PageFaults,
          lines \in TextAreas :
        LET target_files == ParseNames(lines)
            r == find_specific_pdfs(Stored(bucket), MaxPageSize, fault, target_files)
        IN  /\ target_files # <<>>
            /\ IF r.found # <<>>
               THEN /\ StoreFound(r.found, client, bucket)
                    /\ run' = [kind |-> "search", method |-> "Specific Filenames",
                               target_files |-> target_files, catalog |-> r.all,
                               returned |-> r.found, errors |-> r.errors,
                               missing |-> MissingFiles(r.found, target_files),
                               consumed |-> r.consumed]
               ELSE /\ UNCHANGED <<found_files, found_src>>
                    /\ run' = [kind |-> "search", method |-> "Specific Filenames",
                               target_files |-> target_files, catalog |-> r.all,
                               returned |-> r.found,
                               errors |-> Append(r.errors, "No matching PDFs found"),
                               missing |-> {},
                               consumed |-> r.consumed]
            /\ StoreClient(client, bucket)
    /\ UNCHANGED <<searchVars, bulkVars>>

\* what the Pattern Search branch does with the result
PatternBranch(r, pattern, client, bucket) ==
    IF r.found # <<>>
    THEN /\ StoreFound(r.found, client, bucket)
         /\ run' = [kind |-> "search", method |-> "Pattern Search", pattern |-> pattern,
                    returned |-> r.found, errors |-> r.errors, consumed |-> r.consumed]
    ELSE /\ UNCHANGED <<found_files, found_src>>
         /\ run' = [kind |-> "search", method |-> "Pattern Search", pattern |-> pattern,
                    returned |-> r.found,
                    errors |-> Append(r.errors, "No PDFs found matching the pattern"),
                    consumed |-> r.consumed]

\* extraction_method == "Pattern Search"
SearchPattern ==
    /\ op = "idle" /\ pc = "idle"
    /\ \E bucket \in Buckets, client \in Clients, fault \in PageFaults,
          pattern \in Patterns :
        /\ PatternBranch(search_by_pattern(Stored(bucket), MaxPageSize, fault, pattern),
                         pattern, client, bucket)
        /\ StoreClient(client, bucket)
    /\ UNCHANGED <<searchVars, bulkVars>>

\* extraction_method == "Browse All PDFs"
SearchBrowse ==
    /\ op = "idle" /\ pc = "idle"
    /\ \E bucket \in Buckets, client \in Clients, fault \in PageFaults :
        LET r == search_by_pattern(Stored(bucket), MaxPageSize, fault, AnyPattern)
        IN  /\ StoreFound(r.found, client, bucket)
            /\ run' = [kind |-> "search", method |-> "Browse All PDFs",
                       returned |-> r.found, errors |-> r.errors,
                       consumed |-> r.consumed]
            /\ StoreClient(client, bucket)
    /\ UNCHANGED <<searchVars, bulkVars>>

\* get_s3_client() returned None: the button does nothing more
SearchNoClient ==
    /\ op = "idle" /\ pc = "idle"
    /\ run' = [kind |-> "search", method |-> "none", returned |-> <<>>,
               errors |-> <<"Error creating S3 client">>, consumed |-> 0]
    /\ UNCHANGED <<found_files, s3_client, bucket_name, found_src>>
    /\ UNCHANGED <<searchVars, bulkVars>>

\* what s3_client.get_object(...)['Body'].read() may give: the bytes, or a raise
GetResults ==
    {[ok |-> FALSE, data |-> <<>>]} \cup {[ok |-> TRUE, data |-> b] : b \in Bytes}

\* download_file: the bytes, or None (ok false) after one st.error
download_file(result) == IF result.ok THEN result ELSE [ok |-> FALSE, data |-> <<>>]

\* if file_data: (None and b"" are both false)
Truthy(file_data) == file_data.ok /\ file_data.data # <<>>

\* the download button of one row of the table
DownloadOne ==
    /\ op = "idle" /\ pc = "idle"
    /\ found_files # <<>>
    /\ \E i \in 1..Len(found_files), result \in GetResults :
        run' = [kind |-> "download",
                request |-> [client |-> s3_client, bucket |-> bucket_name,
                             key |-> found_files[i].Key],
                offered |-> Truthy(download_file(result)),
                errors |-> IF ~result.ok THEN <<"Error downloading">> ELSE <<>>]
    /\ UNCHANGED <<found_files, s3_client, bucket_name, found_src>>
    /\ UNCHANGED <<searchVars, bulkVars>>

Next == SearchNames \/ SearchPattern \/ SearchBrowse \/ SearchNoClient \/ DownloadOne

Spec == Init /\ [][Next]_vars

----------------------------------------------------------------------------
(* The page: "Download Selected as ZIP"                                     *)

\* the objects of a bucket whose results are selected from
BulkObjects ==
    { [Key |-> Kdr, Size |-> 1], [Key |-> Kxr, Size |-> 2], [Key |-> Kar, Size |-> 0] }

BulkListings == DistinctSeqsUpTo(BulkObjects, MaxObjs)

\* the result lists a search may have stored: Browse All, and a name search
\* whose names match the same file twice
BulkResults ==
    {r \in {search_by_pattern(l, MaxPageSize, NoFault, AnyPattern).found :
                l \in BulkListings}
           \cup {find_specific_pdfs(l, MaxPageSize, NoFault, <<NRp, Nar>>).found :
                l \in BulkListings} : r # <<>>}

\* the rows ticked, in the order of the sorted table: rows of found_files,
\* no row twice
Selections(found) ==
    {sel \in DistinctSeqsUpTo(1..Len(found), MaxSel) : sel # <<>>}

\* files_data[file_name] = file_data
DictSet(d, file_name, file_data) ==
    IF \E i \in 1..Len(d) : d[i].name = file_name
    THEN [i \in 1..Len(d) |->
            IF d[i].name = file_name THEN [name |-> file_name, data |-> file_data]
            ELSE d[i]]
    ELSE Append(d, [name |-> file_name, data |-> file_data])

\* a slip for NextIndex: a failed download is tried again
NextIndexRetry(i, file_data) == IF file_data.ok THEN i + 1 ELSE i

\* for i, file_info in enumerate(selected_files): the next file, whatever the
\* download gave
NextIndex(i, file_data) == i + 1

NoZip == [made |-> FALSE, entries |-> <<>>]

InitBulk ==
    /\ op = "idle"
    /\ call = NoCall
    /\ ret = NoRet
    /\ found_files \in BulkResults
    /\ s3_client \in Clients
    /\ bucket_name \in Buckets
    /\ found_src = [bucket |-> bucket_name, client |-> s3_client]
    /\ run = NoRun
    /\ pc = "idle"
    /\ selected = <<>>
    /\ idx = 0
    /\ files_data = <<>>
    /\ inflight = {}
    /\ requests = <<>>
    /\ outcomes = <<>>
    /\ zip_out = NoZip

\* the button is clicked: files_data = {}
BulkStart ==
    /\ pc = "idle"
    /\ \E sel \in Selections(found_files) :
        selected' = [i \in 1..Len(sel) |-> found_files[sel[i]]]
    /\ idx' = 0
    /\ files_data' = <<>>
    /\ inflight' = {}
    /\ requests' = <<>>
    /\ outcomes' = <<>>
    /\ zip_out' = NoZip
    /\ pc' = "loop"
    /\ UNCHANGED <<searchVars, sessionVars>>

\* download_file(...) calls s3_client.get_object(Bucket=bucket, Key=key)
BulkRequest ==
    /\ pc = "loop"
    /\ idx < Len(selected)
    /\ requests' = Append(requests, [client |-> s3_client, bucket |-> bucket_name,
                                      key |-> selected[idx + 1].Key])
    /\ inflight' = inflight \cup {idx + 1}
    /\ pc' = "wait"
    /\ UNCHANGED <<selected, idx, files_data, outcomes, zip_out>>
    /\ UNCHANGED <<searchVars, sessionVars>>

\* get_object returns or raises; if file_data: files_data[FileName] = file_data
BulkReturn ==
    /\ pc = "wait"
    /\ \E result \in GetResults :
        LET file_data == download_file(result)
        IN  /\ outcomes' = Append(outcomes, result)
            /\ files_data' = IF Truthy(file_data)
                             THEN DictSet(files_data, selected[idx + 1].FileName,
                                          file_data.data)
                             ELSE files_data
            /\ idx' = NextIndex(idx, file_data)
    /\ inflight' = inflight \ {idx + 1}
    /\ pc' = "loop"
    /\ UNCHANGED <<selected, requests, zip_out>>
    /\ UNCHANGED <<searchVars, sessionVars>>

\* if files_data: zip_data = create_zip_file(files_data)
BulkFinish ==
    /\ pc = "loop"
    /\ idx >= Len(selected)
    /\ \E build \in Builds :
        zip_out' = IF files_data # <<>>
                   THEN [made |-> TRUE,
                         entries |-> create_zip_file(build, files_data).entries]
                   ELSE NoZip
    /\ pc' = "done"
    /\ UNCHANGED <<selected, idx, files_data, inflight, requests, outcomes>>
    /\ UNCHANGED <<searchVars, sessionVars>>

NextBulk == BulkStart \/ BulkRequest \/ BulkReturn \/ BulkFinish

SpecBulk == InitBulk /\ [][NextBulk]_vars

----------------------------------------------------------------------------
(* Properties of the functions                                              *)

\* the key ends in ".pdf" whatever the case of its letters
HasPdfSuffix(key) ==
    /\ Len(key) >= 4
    /\ key[Len(key) - 3] = "."
    /\ key[Len(key) - 2] \in {"p", "P"}
    /\ key[Len(key) - 1] \in {"d", "D"}
    /\ key[Len(key)] \in {"f", "F"}

\* name is what follows the last '/' of full
IsBaseName(name, full) ==
    /\ \A i \in 1..Len(name) : name[i] # "/"
    /\ \/ full = name
       \/ EndsWith(full, <<"/">> \o name)

KeysOf(entries) == [i \in 1..Len(entries) |-> entries[i].Key]

\* the entries of s at the indices of I, in order
RECURSIVE AtIndices(_, _, _)
AtIndices(s, I, from) ==
    IF from > Len(s) THEN <<>>
    ELSE (IF from \in I THEN <<s[from]>> ELSE <<>>) \o AtIndices(s, I, from + 1)

\* what a requested name n contributes by the stated rule
Contribution(catalog, n) ==
    LET exact == {i \in 1..Len(catalog) : Lower(catalog[i].FileName) = Lower(n)}
        part == {i \in 1..Len(catalog) : Contains(Lower(catalog[i].FileName), Lower(n))}
    IN  AtIndices(catalog, IF exact # {} THEN exact ELSE part, 1)

RECURSIVE Contributions(_, _)
Contributions(catalog, names) ==
    IF names = <<>> THEN <<>>
    ELSE (IF Strip(Head(names)) = <<>> THEN <<>>
          ELSE Contribution(catalog, Strip(Head(names))))
         \o Contributions(catalog, Tail(names))

\* C1: in find_specific_pdfs every trimmed non-blank requested name contributes
\* all the catalog entries whose fileName equals it ignoring case when there is
\* one, and otherwise all the entries whose lowercased fileName contains it;
\* the result is these contributions, in the order of the names.
C1_ExactThenSubstring ==
    (op = "find" /\ ret.errors = <<>>) =>
        ret.found = Contributions(ret.all, call.target_files)

\* R.PDF and ar.pdf listed, " R.pdf " requested: only R.PDF is found
C1_Witness ==
    /\ op = "find"
    /\ ret.errors = <<>>
    /\ call.target_files = <<NRp>>
    /\ {KxR, Kar} \subseteq Range(KeysOf(ret.all))
    /\ KeysOf(ret.found) = <<KxR>>

\* C4: search_by_pattern with ".*" returns the listing's objects whose key ends
\* in ".pdf" ignoring case, each once and in listing order: the catalog that
\* find_specific_pdfs builds from the same listing.
C4_BrowseAllIsCatalog ==
    (op = "pattern" /\ call.pattern = AnyPattern /\ ret.errors = <<>>) =>
        /\ KeysOf(ret.found) = SelectSeq(KeysOf(call.listing), HasPdfSuffix)
        /\ ret.found = find_specific_pdfs(call.listing, call.ps, NoFault, <<>>).all

C4_Witness ==
    /\ op = "pattern"
    /\ call.pattern = AnyPattern
    /\ ret.errors = <<>>
    /\ Len(call.listing) = 2
    /\ Len(ret.found) = 1

\* the listing was enumerated and a page request raised
ListingFailed ==
    /\ op \in {"find", "pattern"}
    /\ op = "pattern" => Compiles(call.pattern)
    /\ call.fault.at >= 1
    /\ call.fault.at <= Len(Paginate(call.listing, call.ps))

\* C5: when enumerating the bucket fails, on the first page or after pages
\* were consumed, the failure is reported once and the function returns no
\* matched entry and no catalog.
C5_ListingFailureReturnsNothing ==
    ListingFailed =>
        /\ Len(ret.errors) = 1
        /\ ret.found = <<>>
        /\ op = "find" => ret.all = <<>>
        /\ ret.consumed = call.fault.at - 1

\* the second page request fails after a page holding a PDF was read
C5_Witness ==
    /\ ListingFailed
    /\ op = "find"
    /\ call.fault.at = 2
    /\ HasPdfSuffix(call.listing[1].Key)
    /\ call.target_files # <<>>

\* C8 as stated: for any non-empty mapping create_zip_file does not raise and
\* the archive holds one entry per logical name, under its last segment, with
\* the mapping's bytes.
C8_AnyMapping ==
    (op = "zip" /\ call.files_data # <<>>) =>
        /\ ~ret.raised
        /\ Len(ret.entries) = Len(call.files_data)
        /\ \A i \in 1..Len(call.files_data) :
              /\ IsBaseName(ret.entries[i].name, call.files_data[i].name)
              /\ ret.entries[i].data = call.files_data[i].data

\* C8 amended: the same for every non-empty mapping whose logical names have a
\* non-empty last segment; two names of one basename give two entries.
C8_NamedMapping ==
    (/\ op = "zip"
     /\ call.files_data # <<>>
     /\ \A i \in 1..Len(call.files_data) :
           /\ call.files_data[i].name # <<>>
           /\ call.files_data[i].name[Len(call.files_data[i].name)] # "/") =>
        /\ ~ret.raised
        /\ Len(ret.entries) = Len(call.files_data)
        /\ \A i \in 1..Len(call.files_data) :
              /\ IsBaseName(ret.entries[i].name, call.files_data[i].name)
              /\ ret.entries[i].data = call.files_data[i].data

\* d/r.pdf and x/r.pdf archived: two entries named r.pdf
C8_Witness ==
    /\ op = "zip"
    /\ ~ret.raised
    /\ Len(call.files_data) = 2
    /\ call.files_data[1].name = Kdr
    /\ call.files_data[2].name = Kxr
    /\ call.files_data[1].data # call.files_data[2].data
    /\ Len(ret.entries) = 2
    /\ ret.entries[1].name = ret.entries[2].name

\* the entries a search call handed back
Returned == Range(ret.found) \cup (IF op = "find" THEN Range(ret.all) ELSE {})

\* C9: every entry of the catalog of find_specific_pdfs and every entry
\* returned by search_by_pattern has a key ending in ".pdf" ignoring case, a
\* fileName that is the key's part after its last '/', and is a listed object.
C9_EntriesArePdfs ==
    (op \in {"find", "pattern"}) =>
        \A e \in Returned :
            /\ HasPdfSuffix(e.Key)
            /\ IsBaseName(e.FileName, e.Key)
            /\ \E o \in Range(call.listing) : o.Key = e.Key

\* r.pdf/n and a PDF under a folder listed: only the PDF is in the catalog
C9_Witness ==
    /\ op = "find"
    /\ KeysOf(call.listing) = <<Kdir, KxR>>
    /\ KeysOf(ret.all) = <<KxR>>
    /\ ret.all[1].FileName = <<"R", ".", "P", "D", "F">>

----------------------------------------------------------------------------
(* Properties of the page                                                   *)

\* the lowercased requested names that no catalog entry matches, exactly or
\* as a substring of its fileName
Unmatched(catalog, target_files) ==
    {Lower(n) : n \in {m \in Range(target_files) :
        \A i \in 1..Len(catalog) :
            ~Contains(Lower(catalog[i].FileName), Lower(m))}}

NameSearchDone ==
    /\ run.kind = "search"
    /\ run.method = "Specific Filenames"
    /\ run.consumed > 0

\* C2: after a name-list search the names reported as not found are the
\* lowercased requested names that matched no catalog entry, exactly or as a
\* substring.
C2_MissingAreUnmatched ==
    NameSearchDone => run.missing = Unmatched(run.catalog, run.target_files)

\* a search with a pattern that does not compile has just run
InvalidPatternRun ==
    /\ run.kind = "search"
    /\ run.method = "Pattern Search"
    /\ ~Compiles(run.pattern)

\* C6: when the pattern does not compile, InvalidPattern is reported, no page
\* of the listing is read, no entry is returned, and the stored search results
\* stay as they were.
C6_InvalidPatternNoSearch ==
    [][InvalidPatternRun' =>
        /\ run'.errors[1] = "Invalid regex pattern"
        /\ run'.consumed = 0
        /\ run'.returned = <<>>
        /\ found_files' = found_files]_vars

\* a pattern that does not compile was searched while results were stored
C6_Witness ==
    /\ InvalidPatternRun
    /\ found_files # <<>>
    /\ run.errors # <<>>

\* C10: whenever a result list is stored, it was produced by a search of the
\* stored bucket with the stored client.
C10_ResultsFromStoredBucket ==
    found_files # <<>> =>
        found_src = [bucket |-> bucket_name, client |-> s3_client]

----------------------------------------------------------------------------
(* Properties of the bulk archive                                           *)

\* how many times x occurs in s
CountIn(s, x) == Cardinality({i \in 1..Len(s) : s[i] = x})

\* basename and bytes of every selected file whose retrieval succeeded
Succeeded ==
    AtIndices([i \in 1..Len(outcomes) |->
                  [name |-> selected[i].FileName, data |-> outcomes[i].data]],
              {i \in 1..Len(outcomes) : outcomes[i].ok}, 1)

\* C3: a bulk archive build runs over the whole selection whatever fails, and
\* the archive holds exactly one entry, basename and bytes, for each selected
\* file whose retrieval succeeded and none for a file whose retrieval failed.
C3_ArchiveHoldsEverySuccess ==
    (pc = "done" /\ Succeeded # <<>>) =>
        /\ Len(outcomes) = Len(selected)
        /\ zip_out.made
        /\ \A e \in Range(Succeeded) \cup Range(zip_out.entries) :
              CountIn(zip_out.entries, e) = CountIn(Succeeded, e)

\* C7: the retrievals of a bulk archive build are issued one at a time in
\* selection order, each selected file requested once whether or not a
\* retrieval fails: n requests for n selected files.
C7_OneRequestPerFileInOrder ==
    /\ Cardinality(inflight) <= 1
    /\ Len(requests) = Len(outcomes) + Cardinality(inflight)
    /\ Len(requests) <= Len(selected)
    /\ \A i \in 1..Len(requests) : requests[i].key = selected[i].Key
    /\ pc = "done" => Len(requests) = Len(selected)

\* the first of two retrievals failed and the second was still made
C7_Witness ==
    /\ pc = "done"
    /\ Len(selected) = 2
    /\ ~outcomes[1].ok
    /\ outcomes[2].ok
    /\ Len(requests) = 2

====
